---- MODULE Spec2Model ----
(***************************************************************************)
(* BB84 quantum key distribution simulator.                                *)
(*                                                                         *)
(* Two drivers share the same pipeline of functions:                       *)
(*   impl = "app"    : src/app.py, the "Run Simulation" block              *)
(*   impl = "script" : src/bb84_qkd_simulation.py, main()                  *)
(*                                                                         *)
(* A QuantumCircuit(1, 1) is the sequence of the gates appended to it      *)
(* ("x", "h", "barrier", "measure").  The qasm_simulator backend is        *)
(* modelled on the four single-qubit states these gates can produce from   *)
(* |0>: "0", "1", "+", "-".                                                *)
(*                                                                         *)
(* Python's module-level `random` is a stream of draws, rng_stream, read   *)
(* at position rng_pos; the stream is what a seed fixes.  The simulator's  *)
(* sampling of a measurement is not drawn from that stream: execute() is   *)
(* called without a seed, so each sampled outcome is a free choice.        *)
(*                                                                         *)
(* Python lists are sequences; list index i (0-based) is element i + 1.    *)
(***************************************************************************)
EXTENDS Integers, Sequences, FiniteSets

\* ------------------------------------------------------------ bounds ----
\* largest number of qubits of a run
MaxN == 2
\* largest number of qubits of a run that is repeated under the same seed
MaxSeededN == 1
\* longest pair of keys handed directly to the statistics functions
MaxKeyLen == 20

\* ------------------------------------------------- program constants ----
\* the detection threshold 0.15, as the fraction ThresholdNum / ThresholdDen
ThresholdNum == 15
ThresholdDen == 100

VARIABLES
    impl,          \* which driver runs: "app" or "script"
    n,             \* requested number of qubits
    eve_present,   \* the app's checkbox; the script always routes through Eve
    rng_stream,    \* the draws the seeded `random` module will return
    rng_pos,       \* how many draws of rng_stream have been consumed
    pc,            \* the statement of the driver that runs next
    alice_bits, alice_bases, bob_bases,
    encoded,       \* the circuits Alice prepared
    eve_bases,     \* eve_intercept: Eve's bases
    eve_results,   \* eve_intercept: `result` of each iteration so far
    new_circuits,  \* eve_intercept: the circuits re-encoded so far
    intercepted,   \* the circuits handed to Bob
    results,       \* measure_qubits: the results appended so far
    bob_results,
    key_a, key_b, indices,
    qber,          \* a float, kept as the exact fraction [num, den]
    verdict,       \* which message the threshold check shows
    run_no,        \* 1, or 2 for the repetition under the same seed
    first_result   \* the outcome of run 1, kept for comparison

vars == <<impl, n, eve_present, rng_stream, rng_pos, pc, alice_bits, alice_bases,
          bob_bases, encoded, eve_bases, eve_results, new_circuits, intercepted,
          results, bob_results, key_a, key_b, indices, qber, verdict, run_no,
          first_result>>

Bit == {0, 1}
Basis == {"Z", "X"}
NoValue == "None"
\* a float variable that has not been assigned
NoFloat == [unset |-> TRUE]

\* --------------------------------------------------- random module ----
\* range(k): empty when k <= 0
Range(k) == 1..k

\* random.randint(0, 1) on draw d
randint(d) == d

\* random.choice(['Z', 'X']) on draw d
choice(d) == <<"Z", "X">>[d + 1]

\* [random.randint(0, 1) for _ in range(k)] reading the stream after pos
RandomBits(stream, pos, k) == [j \in Range(k) |-> randint(stream[pos + j])]

\* [random.choice(['Z', 'X']) for _ in range(k)] reading the stream after pos
RandomBases(stream, pos, k) == [j \in Range(k) |-> choice(stream[pos + j])]

\* number of draws a run of k qubits consumes (bits, Alice, Bob, Eve)
DrawsOfRun(k, eve) == IF k <= 0 THEN 0 ELSE IF eve THEN 4 * k ELSE 3 * k

\* ------------------------------------------------ circuits, backend ----
QuantumCircuit == <<>>

\* the state a gate maps each of the states |0>, |1>, |+>, |-> to
ApplyGate(state, gate) ==
    CASE gate = "x" -> (CASE state = "0" -> "1" [] state = "1" -> "0"
                          [] state = "+" -> "+" [] state = "-" -> "-")
      [] gate = "h" -> (CASE state = "0" -> "+" [] state = "1" -> "-"
                          [] state = "+" -> "0" [] state = "-" -> "1")
      [] gate = "barrier" -> state

RECURSIVE Evolve(_, _)
Evolve(state, gates) ==
    IF gates = <<>> THEN state
    ELSE Evolve(ApplyGate(state, Head(gates)), Tail(gates))

\* the memory strings one shot of a measurement can return, each with its
\* probability in halves
Sample(state) ==
    CASE state = "0" -> {[memory |-> "0", halves |-> 2]}
      [] state = "1" -> {[memory |-> "1", halves |-> 2]}
      [] state \in {"+", "-"} -> {[memory |-> "0", halves |-> 1],
                                  [memory |-> "1", halves |-> 1]}

\* execute(qc, backend, shots=1, memory=True).result().get_memory()[0] for a
\* circuit whose last gate is the measurement
execute(qc) == Sample(Evolve("0", SubSeq(qc, 1, Len(qc) - 1)))

\* int("0"), int("1")
int(s) == IF s = "1" THEN 1 ELSE 0

\* ------------------------------------------------------- encoding ----
\* the mutation: the Hadamard is applied for the wrong basis
encode_qubit_wrong_basis(bit, base) ==
    LET qc1 == IF bit = 1 THEN Append(QuantumCircuit, "x") ELSE QuantumCircuit
    IN IF base = "Z" THEN Append(qc1, "h") ELSE qc1

\* one iteration of encode_qubits
encode_qubit(bit, base) ==
    LET qc1 == IF bit = 1 THEN Append(QuantumCircuit, "x") ELSE QuantumCircuit
    IN IF base = "X" THEN Append(qc1, "h") ELSE qc1

\* zip(bits, bases) stops at the shorter list
MinLen(s, t) == IF Len(s) <= Len(t) THEN Len(s) ELSE Len(t)

encode_qubits(bits, bases) ==
    [i \in 1..MinLen(bits, bases) |-> encode_qubit(bits[i], bases[i])]

\* ------------------------------------------------------ measuring ----
\* the mutation: the measurement is always taken in the Z basis
measured_circuit_no_rotation(qc, basis) == Append(qc, "measure")

\* qc.copy(), h(0) if the basis is 'X', measure(0, 0): the circuit executed
measured_circuit(qc, basis) ==
    LET new_qc == IF basis = "X" THEN Append(qc, "h") ELSE qc
    IN Append(new_qc, "measure")

\* the mutation: Eve measures without rotating to her basis
eve_measured_circuit_no_rotation(driver, qc, basis) ==
    Append(IF driver = "script" THEN Append(qc, "barrier") ELSE qc, "measure")

\* the mutation: the script's Eve measures without rotating to her basis
eve_measured_circuit_script_unrotated(driver, qc, basis) ==
    IF driver = "script"
    THEN Append(Append(qc, "barrier"), "measure")
    ELSE measured_circuit(qc, basis)

\* Eve's copy; the script puts a barrier before her measurement
eve_measured_circuit(driver, qc, basis) ==
    measured_circuit(IF driver = "script" THEN Append(qc, "barrier") ELSE qc, basis)

\* the mutation: Eve re-encodes in the Z basis whatever basis she measured in
eve_reencode_forgets_basis(result, basis) ==
    IF result = 1 THEN Append(QuantumCircuit, "x") ELSE QuantumCircuit

\* the mutation: the Hadamard is appended before the X gate
eve_reencode_h_first(result, basis) ==
    LET re_qc == IF basis = "X" THEN Append(QuantumCircuit, "h") ELSE QuantumCircuit
    IN IF result = 1 THEN Append(re_qc, "x") ELSE re_qc

\* Eve re-encodes her result in her own basis
eve_reencode(result, basis) ==
    LET re_qc == IF result = 1 THEN Append(QuantumCircuit, "x") ELSE QuantumCircuit
    IN IF basis = "X" THEN Append(re_qc, "h") ELSE re_qc

\* ------------------------------------------------------- sifting ----
EmptySift == [a |-> <<>>, b |-> <<>>, idx |-> <<>>]

\* the mutation: the comparison of the bases is inverted
sift_step_inverted(acc, i, a_bases, b_bases, a_bits, b_bits) ==
    IF a_bases[i + 1] # b_bases[i + 1]
    THEN [a |-> Append(acc.a, a_bits[i + 1]),
          b |-> Append(acc.b, b_bits[i + 1]),
          idx |-> Append(acc.idx, i)]
    ELSE acc

\* the mutation: Bob's bit is appended outside the if
sift_step_b_always(acc, i, a_bases, b_bases, a_bits, b_bits) ==
    IF a_bases[i + 1] = b_bases[i + 1]
    THEN [a |-> Append(acc.a, a_bits[i + 1]),
          b |-> Append(acc.b, b_bits[i + 1]),
          idx |-> Append(acc.idx, i)]
    ELSE [acc EXCEPT !.b = Append(acc.b, b_bits[i + 1])]

\* the mutation: the bits are compared instead of the bases
sift_step_compares_bits(acc, i, a_bases, b_bases, a_bits, b_bits) ==
    IF a_bits[i + 1] = b_bits[i + 1]
    THEN [a |-> Append(acc.a, a_bits[i + 1]),
          b |-> Append(acc.b, b_bits[i + 1]),
          idx |-> Append(acc.idx, i)]
    ELSE acc

\* the body of the loop of sift_keys for list index i
sift_step(acc, i, a_bases, b_bases, a_bits, b_bits) ==
    IF a_bases[i + 1] = b_bases[i + 1]
    THEN [a |-> Append(acc.a, a_bits[i + 1]),
          b |-> Append(acc.b, b_bits[i + 1]),
          idx |-> Append(acc.idx, i)]
    ELSE acc

\* the lists after the iterations i = 0 .. k - 1
RECURSIVE sift_loop(_, _, _, _, _)
sift_loop(k, a_bases, b_bases, a_bits, b_bits) ==
    IF k <= 0 THEN EmptySift
    ELSE sift_step(sift_loop(k - 1, a_bases, b_bases, a_bits, b_bits),
                   k - 1, a_bases, b_bases, a_bits, b_bits)

\* for i in range(len(alice_bits))
sift_keys(a_bases, b_bases, a_bits, b_bits) ==
    sift_loop(Len(a_bits), a_bases, b_bases, a_bits, b_bits)

\* --------------------------------------------------------- QBER ----
RECURSIVE GCD(_, _)
GCD(a, b) == IF b = 0 THEN a ELSE GCD(b, a % b)

\* a float that is the quotient of two small integers, kept exact
Float(num, den) == [num |-> num \div GCD(num, den), den |-> den \div GCD(num, den)]

\* the exception a division by zero raises, in place of a value
ZeroDivisionError == [raised |-> "ZeroDivisionError"]

\* a / b on ints
truediv(a, b) == IF b = 0 THEN ZeroDivisionError ELSE Float(a, b)

\* sum(a != b for a, b in zip(key_a, key_b))
RECURSIVE CountErrors(_, _)
CountErrors(ka, kb) ==
    IF ka = <<>> \/ kb = <<>> THEN 0
    ELSE (IF Head(ka) # Head(kb) THEN 1 ELSE 0) + CountErrors(Tail(ka), Tail(kb))

\* the mutation: the guard against the empty key is missing
calculate_qber_unguarded(ka, kb) == truediv(CountErrors(ka, kb), Len(ka))

\* errors / len(key_a) if key_a else 0.0
calculate_qber(ka, kb) ==
    IF ka # <<>> THEN truediv(CountErrors(ka, kb), Len(ka)) ELSE Float(0, 1)

\* the literal 0.15.  The double nearest to 3/20 is also the double that
\* 3 / 20 evaluates to, and two quotients of integers up to 200 that differ
\* are more than a rounding error apart, so comparing the exact fractions
\* gives the result of comparing the floats.
Threshold == Float(ThresholdNum, ThresholdDen)

\* x > y on floats
Greater(x, y) == x.num * y.den > y.num * x.den

HighQBER == "High QBER"
LowQBER == "Low QBER"

\* the mutation: the boundary is inclusive
threshold_check_inclusive(q) ==
    IF ~ Greater(Threshold, q) THEN HighQBER ELSE LowQBER

\* if qber > 0.15: ... else: ...
threshold_check(q) == IF Greater(q, Threshold) THEN HighQBER ELSE LowQBER

\* ------------------------------------------------------ the run ----
\* the order of the statements of the two drivers
AfterCreate == IF impl = "app" THEN "bob_bases" ELSE "encode"
AfterBobBases == IF impl = "app" THEN "encode" ELSE "measure"
AfterEve == IF impl = "app" THEN "measure" ELSE "bob_bases"

\* len(range(k))
RangeLen(k) == IF k <= 0 THEN 0 ELSE k

NoResult == [run |-> 0]

\* what one run hands to the presentation layer
RunResult ==
    [alice_bits |-> alice_bits, alice_bases |-> alice_bases,
     eve_bases |-> eve_bases, eve_results |-> eve_results,
     bob_bases |-> bob_bases, bob_results |-> bob_results,
     key_a |-> key_a, key_b |-> key_b, qber |-> qber, verdict |-> verdict]

Blank ==
    /\ pc = "idle"
    /\ rng_pos = 0
    /\ alice_bits = <<>> /\ alice_bases = <<>> /\ bob_bases = <<>>
    /\ encoded = <<>> /\ eve_bases = <<>> /\ eve_results = <<>>
    /\ new_circuits = <<>> /\ intercepted = <<>>
    /\ results = <<>> /\ bob_results = <<>>
    /\ key_a = <<>> /\ key_b = <<>> /\ indices = <<>>
    /\ qber = NoFloat /\ verdict = NoValue

\* the slider and the checkbox are set, the seed is fixed, nothing has run
Init ==
    /\ impl \in {"app", "script"}
    /\ n \in -1..MaxN
    /\ eve_present \in (IF impl = "app" THEN BOOLEAN ELSE {TRUE})
    /\ rng_stream \in [1..DrawsOfRun(n, eve_present) -> Bit]
    /\ Blank
    /\ run_no = 1
    /\ first_result = NoResult

\* the button is pressed / main() is called
RunSimulation ==
    /\ pc = "idle"
    /\ pc' = "create"
    /\ UNCHANGED <<impl, n, eve_present, rng_stream, rng_pos, alice_bits,
                   alice_bases, bob_bases, encoded, eve_bases, eve_results,
                   new_circuits, intercepted, results, bob_results, key_a, key_b,
                   indices, qber, verdict, run_no, first_result>>

\* alice_bits, alice_bases = create_bits_bases(n)
CreateBitsBases ==
    /\ pc = "create"
    /\ alice_bits' = RandomBits(rng_stream, rng_pos, n)
    /\ alice_bases' = RandomBases(rng_stream, rng_pos + RangeLen(n), n)
    /\ rng_pos' = rng_pos + 2 * RangeLen(n)
    /\ pc' = AfterCreate
    /\ UNCHANGED <<impl, n, eve_present, rng_stream, bob_bases, encoded, eve_bases,
                   eve_results, new_circuits, intercepted, results, bob_results,
                   key_a, key_b, indices, qber, verdict, run_no, first_result>>

\* bob_bases = [random.choice(['Z', 'X']) for _ in range(n)]
DrawBobBases ==
    /\ pc = "bob_bases"
    /\ bob_bases' = RandomBases(rng_stream, rng_pos, n)
    /\ rng_pos' = rng_pos + RangeLen(n)
    /\ pc' = AfterBobBases
    /\ UNCHANGED <<impl, n, eve_present, rng_stream, alice_bits, alice_bases,
                   encoded, eve_bases, eve_results, new_circuits, intercepted,
                   results, bob_results, key_a, key_b, indices, qber, verdict,
                   run_no, first_result>>

\* encoded = encode_qubits(alice_bits, alice_bases)
EncodeQubits ==
    /\ pc = "encode"
    /\ encoded' = encode_qubits(alice_bits, alice_bases)
    /\ pc' = "route"
    /\ UNCHANGED <<impl, n, eve_present, rng_stream, rng_pos, alice_bits,
                   alice_bases, bob_bases, eve_bases, eve_results, new_circuits,
                   intercepted, results, bob_results, key_a, key_b, indices, qber,
                   verdict, run_no, first_result>>

\* eve_intercept(circuits) is entered: Eve's bases are drawn
EveInterceptCall ==
    /\ pc = "route"
    /\ impl = "script" \/ eve_present
    /\ eve_bases' = RandomBases(rng_stream, rng_pos, Len(encoded))
    /\ rng_pos' = rng_pos + Len(encoded)
    /\ new_circuits' = <<>>
    /\ eve_results' = <<>>
    /\ pc' = "eve_loop"
    /\ UNCHANGED <<impl, n, eve_present, rng_stream, alice_bits, alice_bases,
                   bob_bases, encoded, intercepted, results, bob_results, key_a,
                   key_b, indices, qber, verdict, run_no, first_result>>

\* one iteration of the loop of eve_intercept
EveInterceptIter ==
    /\ pc = "eve_loop"
    /\ Len(new_circuits) < Len(encoded)
    /\ LET i == Len(new_circuits)
           eve_circuit == eve_measured_circuit(impl, encoded[i + 1], eve_bases[i + 1])
       IN \E shot \in execute(eve_circuit) :
            LET result == int(shot.memory)
            IN /\ eve_results' = Append(eve_results, result)
               /\ new_circuits' =
                      Append(new_circuits, eve_reencode(result, eve_bases[i + 1]))
    /\ UNCHANGED <<impl, n, eve_present, rng_stream, rng_pos, pc, alice_bits,
                   alice_bases, bob_bases, encoded, eve_bases, intercepted, results,
                   bob_results, key_a, key_b, indices, qber, verdict, run_no,
                   first_result>>

\* the mutation: eve_intercept returns the circuits it was given
EveInterceptReturnsInput ==
    /\ pc = "eve_loop"
    /\ Len(new_circuits) = Len(encoded)
    /\ intercepted' = encoded
    /\ pc' = AfterEve
    /\ UNCHANGED <<impl, n, eve_present, rng_stream, rng_pos, alice_bits,
                   alice_bases, bob_bases, encoded, eve_bases, eve_results,
                   new_circuits, results, bob_results, key_a, key_b, indices, qber,
                   verdict, run_no, first_result>>

\* eve_intercept returns new_circuits
EveInterceptReturn ==
    /\ pc = "eve_loop"
    /\ Len(new_circuits) = Len(encoded)
    /\ intercepted' = new_circuits
    /\ pc' = AfterEve
    /\ UNCHANGED <<impl, n, eve_present, rng_stream, rng_pos, alice_bits,
                   alice_bases, bob_bases, encoded, eve_bases, eve_results,
                   new_circuits, results, bob_results, key_a, key_b, indices, qber,
                   verdict, run_no, first_result>>

\* else: intercepted = encoded
NoEve ==
    /\ pc = "route"
    /\ impl = "app" /\ ~ eve_present
    /\ intercepted' = encoded
    /\ pc' = "measure"
    /\ UNCHANGED <<impl, n, eve_present, rng_stream, rng_pos, alice_bits,
                   alice_bases, bob_bases, encoded, eve_bases, eve_results,
                   new_circuits, results, bob_results, key_a, key_b, indices, qber,
                   verdict, run_no, first_result>>

\* the mutation: the rotation and the measurement are applied to the circuit
\* of the list itself, without qc.copy()
MeasureQubitsIterInPlace ==
    /\ pc = "measure"
    /\ Len(results) < Len(intercepted)
    /\ LET i == Len(results)
           new_qc == measured_circuit(intercepted[i + 1], bob_bases[i + 1])
       IN /\ \E shot \in execute(new_qc) :
               results' = Append(results, int(shot.memory))
          /\ intercepted' = [intercepted EXCEPT ![i + 1] = new_qc]
    /\ UNCHANGED <<impl, n, eve_present, rng_stream, rng_pos, pc, alice_bits,
                   alice_bases, bob_bases, encoded, eve_bases, eve_results,
                   new_circuits, bob_results, key_a, key_b, indices,
                   qber, verdict, run_no, first_result>>

\* one iteration of the loop of measure_qubits
MeasureQubitsIter ==
    /\ pc = "measure"
    /\ Len(results) < Len(intercepted)
    /\ LET i == Len(results)
           new_qc == measured_circuit(intercepted[i + 1], bob_bases[i + 1])
       IN \E shot \in execute(new_qc) :
            results' = Append(results, int(shot.memory))
    /\ UNCHANGED <<impl, n, eve_present, rng_stream, rng_pos, pc, alice_bits,
                   alice_bases, bob_bases, encoded, eve_bases, eve_results,
                   new_circuits, intercepted, bob_results, key_a, key_b, indices,
                   qber, verdict, run_no, first_result>>

\* measure_qubits returns results
MeasureQubitsReturn ==
    /\ pc = "measure"
    /\ Len(results) = Len(intercepted)
    /\ bob_results' = results
    /\ pc' = "sift"
    /\ UNCHANGED <<impl, n, eve_present, rng_stream, rng_pos, alice_bits,
                   alice_bases, bob_bases, encoded, eve_bases, eve_results,
                   new_circuits, intercepted, results, key_a, key_b, indices, qber,
                   verdict, run_no, first_result>>

\* key_a, key_b = sift_keys(alice_bases, bob_bases, alice_bits, bob_results)
\* the app's sift_keys keeps no list of indices
SiftKeys ==
    /\ pc = "sift"
    /\ LET sifted == sift_keys(alice_bases, bob_bases, alice_bits, bob_results)
       IN /\ key_a' = sifted.a
          /\ key_b' = sifted.b
          /\ indices' = IF impl = "script" THEN sifted.idx ELSE <<>>
    /\ pc' = "qber"
    /\ UNCHANGED <<impl, n, eve_present, rng_stream, rng_pos, alice_bits,
                   alice_bases, bob_bases, encoded, eve_bases, eve_results,
                   new_circuits, intercepted, results, bob_results, qber, verdict,
                   run_no, first_result>>

\* qber = calculate_qber(key_a, key_b)
CalculateQber ==
    /\ pc = "qber"
    /\ LET q == calculate_qber(key_a, key_b)
       IN IF q = ZeroDivisionError
          THEN pc' = "raised" /\ qber' = qber
          ELSE pc' = "classify" /\ qber' = q
    /\ UNCHANGED <<impl, n, eve_present, rng_stream, rng_pos, alice_bits,
                   alice_bases, bob_bases, encoded, eve_bases, eve_results,
                   new_circuits, intercepted, results, bob_results, key_a, key_b,
                   indices, verdict, run_no, first_result>>

\* if qber > 0.15: the warning, else: the success message
ThresholdCheck ==
    /\ pc = "classify"
    /\ verdict' = threshold_check(qber)
    /\ pc' = "done"
    /\ UNCHANGED <<impl, n, eve_present, rng_stream, rng_pos, alice_bits,
                   alice_bases, bob_bases, encoded, eve_bases, eve_results,
                   new_circuits, intercepted, results, bob_results, key_a, key_b,
                   indices, qber, run_no, first_result>>

Next ==
    \/ RunSimulation
    \/ CreateBitsBases
    \/ DrawBobBases
    \/ EncodeQubits
    \/ EveInterceptCall
    \/ EveInterceptIter
    \/ EveInterceptReturn
    \/ NoEve
    \/ MeasureQubitsIter
    \/ MeasureQubitsReturn
    \/ SiftKeys
    \/ CalculateQber
    \/ ThresholdCheck

Spec == Init /\ [][Next]_vars

\* ------------------------------------- the statistics functions alone ----
\* calculate_qber and the threshold check applied to a pair of sifted keys
\* of len bits that differ in their first errs bits
KeyOfZeros(len) == [k \in 1..len |-> 0]
KeyWithErrors(len, errs) == [k \in 1..len |-> IF k <= errs THEN 1 ELSE 0]

InitStats ==
    /\ impl \in {"app", "script"}
    /\ n = 0
    /\ eve_present = TRUE
    /\ rng_stream = <<>> /\ rng_pos = 0
    /\ alice_bits = <<>> /\ alice_bases = <<>> /\ bob_bases = <<>>
    /\ encoded = <<>> /\ eve_bases = <<>> /\ eve_results = <<>>
    /\ new_circuits = <<>> /\ intercepted = <<>>
    /\ results = <<>> /\ bob_results = <<>>
    /\ \E len \in 0..MaxKeyLen : \E errs \in 0..len :
         /\ key_a = KeyOfZeros(len)
         /\ key_b = KeyWithErrors(len, errs)
    /\ indices = <<>>
    /\ qber = NoFloat /\ verdict = NoValue
    /\ pc = "qber"
    /\ run_no = 1
    /\ first_result = NoResult

NextStats ==
    \/ CalculateQber
    \/ ThresholdCheck

SpecStats == InitStats /\ [][NextStats]_vars

\* ------------------------------------------- the run, to its end ----
\* the driver is sequential code without blocking calls: a statement that can
\* run does run
SpecLive == Init /\ [][Next]_vars /\ WF_vars(Next)

\* --------------------------------------- a second run, same seed ----
\* random.seed(s) with the seed of the first run, then the run again
RunAgainSameSeed ==
    /\ pc = "done"
    /\ run_no = 1
    /\ n <= MaxSeededN
    /\ first_result' = [run |-> 1, result |-> RunResult]
    /\ run_no' = 2
    /\ pc' = "idle"
    /\ rng_pos' = 0
    /\ alice_bits' = <<>> /\ alice_bases' = <<>> /\ bob_bases' = <<>>
    /\ encoded' = <<>> /\ eve_bases' = <<>> /\ eve_results' = <<>>
    /\ new_circuits' = <<>> /\ intercepted' = <<>>
    /\ results' = <<>> /\ bob_results' = <<>>
    /\ key_a' = <<>> /\ key_b' = <<>> /\ indices' = <<>>
    /\ qber' = NoFloat /\ verdict' = NoValue
    /\ UNCHANGED <<impl, n, eve_present, rng_stream>>

NextSeeded ==
    \/ Next
    \/ RunAgainSameSeed

SpecSeeded == Init /\ [][NextSeeded]_vars

\* --------------------------------------- a whole run with Eve ----
\* where in the stream the driver reads Bob's and Eve's bases: the app draws
\* Bob's bases right after Alice's, the script after eve_intercept
BobBasesPos(driver, k) == (IF driver = "app" THEN 2 ELSE 3) * RangeLen(k)
EveBasesPos(driver, k) == (IF driver = "app" THEN 3 ELSE 2) * RangeLen(k)

\* the lists of results the loop of eve_intercept can produce
EveResultLists(driver, circuits, e_bases) ==
    {er \in [1..Len(circuits) -> Bit] :
        \A i \in 1..Len(circuits) :
            \E shot \in execute(eve_measured_circuit(driver, circuits[i], e_bases[i])) :
                er[i] = int(shot.memory)}

\* the lists of results the loop of measure_qubits can produce
BobResultLists(circuits, b_bases) ==
    {br \in [1..Len(circuits) -> Bit] :
        \A i \in 1..Len(circuits) :
            \E shot \in execute(measured_circuit(circuits[i], b_bases[i])) :
                br[i] = int(shot.memory)}

\* the circuits eve_intercept returns for a list of results
EveCircuits(e_results, e_bases) ==
    [i \in 1..Len(e_results) |-> eve_reencode(e_results[i], e_bases[i])]

\* what a run of k qubits through Eve computes from the draws of the stream
\* and the sampled results
RunWithEve(driver, k, stream, e_results, b_results) ==
    LET a_bits == RandomBits(stream, 0, k)
        a_bases == RandomBases(stream, RangeLen(k), k)
        b_bases == RandomBases(stream, BobBasesPos(driver, k), k)
        e_bases == RandomBases(stream, EveBasesPos(driver, k), k)
        sifted == sift_keys(a_bases, b_bases, a_bits, b_results)
        q == calculate_qber(sifted.a, sifted.b)
    IN [alice_bits |-> a_bits, alice_bases |-> a_bases,
        eve_bases |-> e_bases, eve_results |-> e_results,
        bob_bases |-> b_bases, bob_results |-> b_results,
        key_a |-> sifted.a, key_b |-> sifted.b, qber |-> q,
        verdict |-> threshold_check(q)]

\* the stream and the sampled results of every run of k qubits through Eve
RunInputsWithEve(driver, k) ==
    {t \in [1..DrawsOfRun(k, TRUE) -> Bit] \X [1..RangeLen(k) -> Bit]
           \X [1..RangeLen(k) -> Bit] :
        LET e_bases == RandomBases(t[1], EveBasesPos(driver, k), k)
        IN /\ t[2] \in EveResultLists(
                          driver,
                          encode_qubits(RandomBits(t[1], 0, k),
                                        RandomBases(t[1], RangeLen(k), k)),
                          e_bases)
           /\ t[3] \in BobResultLists(
                          EveCircuits(t[2], e_bases),
                          RandomBases(t[1], BobBasesPos(driver, k), k))}

\* every outcome a run of k qubits through Eve can have
RunsWithEve(driver, k) ==
    {RunWithEve(driver, k, t[1], t[2], t[3]) : t \in RunInputsWithEve(driver, k)}

\* ---------------------------------- one intercepted trial, weighted ----
\* every way a trial with Eve can go for a sender bit and basis and a receiver
\* basis: Eve's basis (one draw of two), her sampled result and Bob's sampled
\* result, with the probability of the path in eighths
TrialLeaves(driver, bit, base, bob_base) ==
    UNION { UNION { { [eve_basis |-> eb,
                       eve_result |-> int(es.memory),
                       bob_result |-> int(bs.memory),
                       eighths |-> es.halves * bs.halves] :
                      bs \in execute(measured_circuit(
                                eve_reencode(int(es.memory), eb), bob_base)) } :
                    es \in execute(eve_measured_circuit(
                                driver, encode_qubit(bit, base), eb)) } :
            eb \in {choice(d) : d \in Bit} }

RECURSIVE Mass(_)
Mass(leaves) ==
    IF leaves = {} THEN 0
    ELSE LET l == CHOOSE x \in leaves : TRUE
         IN l.eighths + Mass(leaves \ {l})

\* ============================================================ claims ====
WithEve == impl = "script" \/ eve_present
Sifted == pc \in {"qber", "classify", "done"}
Scored == pc \in {"classify", "done"}
Completed == pc = "done"

\* the trials whose sender basis and receiver basis agree (list index + 1)
Kept == {i \in 1..Len(alice_bits) : alice_bases[i] = bob_bases[i]}

\* the k-th smallest element of a set of numbers
Nth(S, k) == CHOOSE i \in S : Cardinality({j \in S : j < i}) = k - 1

\* the positions at which the two sifted keys differ
ErrorPositions == {k \in 1..Len(key_a) : k <= Len(key_b) /\ key_a[k] # key_b[k]}

\* the gates of a circuit as a set
Gates(qc) == {qc[k] : k \in 1..Len(qc)}

\* qc is a circuit prepared for this bit in this basis
PreparedAs(qc, bit, basis) ==
    /\ ("x" \in Gates(qc)) <=> (bit = 1)
    /\ ("h" \in Gates(qc)) <=> (basis = "X")

\* the bit and basis the circuit handed to Bob for trial i was prepared with
PreparedBit(i) == IF WithEve THEN eve_results[i] ELSE alice_bits[i]
PreparedBasis(i) == IF WithEve THEN eve_bases[i] ELSE alice_bases[i]

\* C1: without Eve, every measured trial whose bases agree gives Bob the
\* sender's bit, the two sifted keys are equal, and the QBER is exactly 0.0.
C1_NoEveQberZero ==
    ~ WithEve =>
        /\ \A i \in 1..Len(results) :
             alice_bases[i] = bob_bases[i] => results[i] = alice_bits[i]
        /\ Sifted => key_a = key_b
        /\ Scored => qber = Float(0, 1)

C1_Witness ==
    /\ Completed /\ ~ WithEve
    /\ \E i, j \in 1..Len(alice_bits) :
         /\ alice_bases[i] = "X" /\ bob_bases[i] = "X" /\ alice_bits[i] = 1
         /\ alice_bases[j] # bob_bases[j]
    /\ Len(key_a) = 1

\* C2: a qubit prepared with bit b in basis B and measured in the same basis B
\* gives b, for Eve's measurement of Alice's qubits and for Bob's measurement
\* of the qubits handed to him, whichever outcome the backend samples.
C2_MatchingBasisDeterministic ==
    /\ \A i \in 1..Len(eve_results) :
         eve_bases[i] = alice_bases[i] => eve_results[i] = alice_bits[i]
    /\ \A i \in 1..Len(results) :
         bob_bases[i] = PreparedBasis(i) => results[i] = PreparedBit(i)

C2_Witness ==
    /\ WithEve
    /\ \E i \in 1..Len(results) :
         /\ alice_bases[i] = "X" /\ eve_bases[i] = "X" /\ bob_bases[i] = "X"
         /\ alice_bits[i] = 1 /\ eve_results[i] = 1 /\ results[i] = 1
    /\ \E i \in 1..Len(results) :
         /\ alice_bases[i] = "Z" /\ eve_bases[i] = "Z" /\ bob_bases[i] = "Z"
         /\ alice_bits[i] = 0 /\ results[i] = 0

\* C3: the sifted keys hold exactly the trials whose sender basis equals the
\* receiver basis, in increasing trial order, each pairing the sender bit and
\* the receiver bit of that trial; there are at most n of them; the script's
\* indices list names the kept trials and is strictly increasing.
C3_SiftingCorrect ==
    Sifted =>
        /\ Len(key_a) = Cardinality(Kept)
        /\ Len(key_b) = Cardinality(Kept)
        /\ Len(key_a) <= Len(alice_bits)
        /\ n >= 0 => Len(key_a) <= n
        /\ \A k \in 1..Len(key_a) :
             /\ key_a[k] = alice_bits[Nth(Kept, k)]
             /\ key_b[k] = bob_results[Nth(Kept, k)]
        /\ impl = "script" =>
             /\ Len(indices) = Cardinality(Kept)
             /\ \A k \in 1..Len(indices) : indices[k] = Nth(Kept, k) - 1
             /\ \A k \in 1..(Len(indices) - 1) : indices[k] < indices[k + 1]

C3_Witness ==
    /\ Completed /\ impl = "script"
    /\ alice_bits = <<0, 1>>
    /\ key_a = <<0, 1>>
    /\ indices = <<0, 1>>

\* C4: calculate_qber never raises a division by zero; for an empty sifted
\* key it returns 0.0 and otherwise errorCount / len(sifted).
C4_EmptyKeyQber ==
    /\ pc # "raised"
    /\ Scored =>
         IF key_a = <<>>
         THEN qber = Float(0, 1)
         ELSE /\ qber.den > 0
              /\ qber.num * Len(key_a) = Cardinality(ErrorPositions) * qber.den

C4_Witness ==
    /\ Completed /\ n = 2
    /\ Kept = {}
    /\ key_a = <<>>
    /\ qber = Float(0, 1)

\* C5: in every completed run the two sifted keys have the same length and
\* 0 <= errorCount <= len(sifted), so the QBER lies in [0, 1].
C5_QberInUnitInterval ==
    /\ Sifted => Len(key_a) = Len(key_b)
    /\ Completed =>
         /\ Cardinality(ErrorPositions) >= 0
         /\ Cardinality(ErrorPositions) <= Len(key_a)
         /\ qber.den > 0
         /\ qber.num >= 0
         /\ qber.num <= qber.den
         /\ qber.num * Len(key_a) = Cardinality(ErrorPositions) * qber.den

C5_Witness ==
    /\ Completed /\ WithEve
    /\ Len(key_a) = 2
    /\ Cardinality(ErrorPositions) = 2
    /\ qber = Float(1, 1)

\* C6: the high-QBER message is shown if and only if
\* 100 * errorCount > 15 * len(sifted); a QBER of exactly 0.15 and the 0.0 of
\* an empty key get the low-QBER message.
C6_ThresholdExclusive ==
    Completed =>
        /\ verdict \in {HighQBER, LowQBER}
        /\ verdict = HighQBER <=>
             ThresholdDen * Cardinality(ErrorPositions) > ThresholdNum * Len(key_a)

C6_Witness ==
    /\ Completed
    /\ Len(key_a) = 20
    /\ Cardinality(ErrorPositions) = 3
    /\ verdict = LowQBER

\* C7: a run requested with n <= 0 is rejected before any trial executes: it
\* produces no bits, bases, circuits, keys, QBER or message and never
\* completes.
C7_NonPositiveRejected ==
    n <= 0 => /\ pc \in {"idle", "create"}
              /\ qber = NoFloat
              /\ verdict = NoValue

\* C8: a completed run of n qubits holds n trials: every list has length n
\* and position i of every list belongs to trial i (Alice's circuit i encodes
\* her bit i in her basis i, the circuit handed to Bob is Eve's re-encoding of
\* her result i in her basis i, or Alice's circuit i without Eve, and Bob's
\* result i is a possible outcome of measuring that circuit in his basis i).
C8_TrialRecords ==
    (Completed /\ n >= 0) =>
        /\ Len(alice_bits) = n /\ Len(alice_bases) = n /\ Len(encoded) = n
        /\ Len(bob_bases) = n /\ Len(bob_results) = n /\ Len(intercepted) = n
        /\ WithEve => Len(eve_bases) = n /\ Len(eve_results) = n
        /\ \A i \in 1..n :
             /\ PreparedAs(encoded[i], alice_bits[i], alice_bases[i])
             /\ IF WithEve
                THEN PreparedAs(intercepted[i], eve_results[i], eve_bases[i])
                ELSE intercepted[i] = encoded[i]
             /\ bob_bases[i] = PreparedBasis(i) => bob_results[i] = PreparedBit(i)

C8_Witness ==
    /\ Completed /\ WithEve /\ n = 2
    /\ alice_bits = <<0, 1>> /\ alice_bases = <<"Z", "X">>
    /\ eve_bases = <<"X", "Z">> /\ eve_results = <<1, 0>>
    /\ bob_bases = <<"X", "X">> /\ bob_results = <<1, 0>>

\* C9: a second run with the same seed, n and eavesdropper setting gives the
\* same bits, bases, measurement results, sifted keys, QBER and message.
C9_SameSeedSameResult ==
    (run_no = 2 /\ Completed) => RunResult = first_result.result

\* C10: with Eve, for every sifted trial, the paths on which Bob's bit differs
\* from the sender's bit carry exactly 1/4 of the probability (2 of 8
\* eighths), and the trial that ran is one of the paths.
C10_ErrorFloorQuarter ==
    (Completed /\ WithEve) =>
        \A i \in Kept :
            LET leaves == TrialLeaves(impl, alice_bits[i], alice_bases[i], bob_bases[i])
                wrong == {l \in leaves : l.bob_result # alice_bits[i]}
            IN /\ Mass(leaves) = 8
               /\ 4 * Mass(wrong) = Mass(leaves)
               /\ \E l \in leaves : /\ l.eve_basis = eve_bases[i]
                                    /\ l.eve_result = eve_results[i]
                                    /\ l.bob_result = bob_results[i]

C10_Witness ==
    /\ Completed /\ WithEve
    /\ \E i \in Kept : /\ alice_bases[i] = "X"
                       /\ eve_bases[i] = "Z"
                       /\ bob_results[i] # alice_bits[i]

\* a qubit freshly prepared for this bit in this basis: nothing but the X
\* gate of a 1 followed by the Hadamard of the X basis
FreshQubit(bit, basis) ==
    (IF bit = 1 THEN <<"x">> ELSE <<>>) \o (IF basis = "X" THEN <<"h">> ELSE <<>>)

\* the results one shot of a circuit can give
Outcomes(qc) == {int(shot.memory) : shot \in execute(qc)}

\* C11: for every intercepted qubit Eve's result is an outcome of measuring
\* Alice's circuit in Eve's basis, and the circuit she forwards is a fresh
\* qubit prepared with her result in her basis; when her basis equals the
\* sender's, the forwarded qubit has the sender's bit and basis.
C11_InterceptResend ==
    /\ \A i \in 1..Len(new_circuits) :
         /\ eve_results[i] \in
                Outcomes(FreshQubit(alice_bits[i], alice_bases[i])
                         \o (IF eve_bases[i] = "X" THEN <<"h">> ELSE <<>>)
                         \o <<"measure">>)
         /\ new_circuits[i] = FreshQubit(eve_results[i], eve_bases[i])
         /\ eve_bases[i] = alice_bases[i] =>
              /\ new_circuits[i] = FreshQubit(alice_bits[i], alice_bases[i])
              /\ new_circuits[i] = encoded[i]
    /\ Len(new_circuits) = Len(eve_results)
    /\ pc \in {"measure", "sift", "qber", "classify", "done"} /\ WithEve =>
         intercepted = new_circuits

C11_Witness ==
    /\ Completed /\ WithEve
    /\ \E i, j \in 1..Len(intercepted) :
         /\ alice_bases[i] = "X" /\ eve_bases[i] = "X" /\ alice_bits[i] = 1
         /\ intercepted[i] = <<"x", "h">>
         /\ alice_bases[j] = "Z" /\ eve_bases[j] = "X" /\ alice_bits[j] = 0
         /\ eve_results[j] = 1
         /\ intercepted[j] = <<"x", "h">>

\* Eve's next iteration can give this result
EveCanGet(r) == ENABLED (EveInterceptIter /\ eve_results' = Append(eve_results, r))

\* Bob's next iteration can give this result
BobCanGet(r) == ENABLED (MeasureQubitsIter /\ results' = Append(results, r))

\* C12: when the measurement basis differs from the basis the qubit was
\* prepared in, the measurement can give 0 and can give 1, whatever the
\* prepared bit: for Eve measuring Alice's qubit and for Bob measuring the
\* qubit handed to him.
C12_ConjugateBasisBothOutcomes ==
    /\ (pc = "eve_loop" /\ Len(new_circuits) < Len(encoded)) =>
         LET i == Len(new_circuits) + 1
         IN eve_bases[i] # alice_bases[i] => EveCanGet(0) /\ EveCanGet(1)
    /\ (pc = "measure" /\ Len(results) < Len(intercepted)) =>
         LET i == Len(results) + 1
         IN bob_bases[i] # PreparedBasis(i) => BobCanGet(0) /\ BobCanGet(1)

C12_Witness ==
    /\ WithEve
    /\ \E i, j \in 1..Len(results) :
         /\ bob_bases[i] # eve_bases[i] /\ eve_results[i] = 1 /\ results[i] = 0
         /\ bob_bases[j] # eve_bases[j] /\ eve_results[j] = 0 /\ results[j] = 1
         /\ eve_bases[i] # alice_bases[i] /\ alice_bits[i] = 0
         /\ eve_bases[j] # alice_bases[j] /\ alice_bits[j] = 1

\* the circuits for Bob have been chosen
Routed ==
    \/ pc \in {"measure", "sift", "qber", "classify", "done"}
    \/ impl = "script" /\ pc = "bob_bases"

\* C13: the qubits go through eve_intercept if and only if eavesdropperPresent:
\* without Eve no interception happens and Bob is handed the circuits Alice
\* prepared; with Eve he is handed Eve's re-encoded circuits; and every
\* interception is over before Bob's first measurement.
C13_RoutedIffEvePresent ==
    /\ WithEve <=> eve_present
    /\ ~ eve_present =>
         /\ eve_bases = <<>> /\ eve_results = <<>> /\ new_circuits = <<>>
         /\ pc # "eve_loop"
         /\ Routed => intercepted = encoded
    /\ eve_present =>
         /\ Routed =>
              /\ Len(eve_results) = Len(encoded)
              /\ Len(intercepted) = Len(encoded)
              /\ \A i \in 1..Len(intercepted) :
                   intercepted[i] = FreshQubit(eve_results[i], eve_bases[i])
         /\ ~ Routed => intercepted = <<>>
    /\ results # <<>> => Routed
    /\ ~ Routed => results = <<>> /\ bob_results = <<>>

C13_Witness ==
    /\ Completed /\ eve_present
    /\ Len(bob_results) = 2
    /\ \E i \in 1..Len(intercepted) :
         /\ intercepted[i] # encoded[i]
         /\ eve_bases[i] # alice_bases[i]
         /\ bob_bases[i] = alice_bases[i]
         /\ bob_results[i] # alice_bits[i]

\* C14: what sift_keys keeps does not depend on Eve: for the sender's and the
\* receiver's bases of the run, whatever bits the receiver measured (with any
\* bases of Eve, or without her), sift_keys keeps the same trials and the same
\* sender key as in this run, and as many receiver bits; Eve's bases are not
\* among its inputs.
C14_SiftingIgnoresEve ==
    Sifted =>
        \A other_results \in [1..Len(alice_bits) -> Bit] :
            LET other == sift_keys(alice_bases, bob_bases, alice_bits, other_results)
            IN /\ other.a = key_a
               /\ Len(other.b) = Len(key_b)
               /\ impl = "script" => other.idx = indices
               /\ {other.idx[k] + 1 : k \in 1..Len(other.idx)} = Kept

C14_Witness ==
    /\ Completed /\ WithEve
    /\ Len(key_a) = 2
    /\ key_b # key_a
    /\ \E i \in Kept : eve_bases[i] # alice_bases[i]
    /\ \E i \in Kept : eve_bases[i] = alice_bases[i]

\* what a step of eve_intercept or measure_qubits may change
C15_Step ==
    /\ pc = "eve_loop" => encoded' = encoded
    /\ pc = "measure" =>
         /\ intercepted' = intercepted
         /\ encoded' = encoded
         /\ new_circuits' = new_circuits
    /\ eve_results' # eve_results =>
         /\ pc = "eve_loop"
         /\ \E r \in Outcomes(encoded[Len(eve_results) + 1]
                              \o (IF eve_bases[Len(eve_results) + 1] = "X"
                                  THEN <<"h">> ELSE <<>>)
                              \o <<"measure">>) :
              eve_results' = Append(eve_results, r)
    /\ results' # results =>
         /\ pc = "measure"
         /\ \E r \in Outcomes(intercepted[Len(results) + 1]
                              \o (IF bob_bases[Len(results) + 1] = "X"
                                  THEN <<"h">> ELSE <<>>)
                              \o <<"measure">>) :
              results' = Append(results, r)

\* the circuits hold no measurement and no rotation beyond their preparation,
\* and a completed run measured every prepared circuit once
C15_State ==
    /\ \A i \in 1..Len(encoded) :
         encoded[i] = FreshQubit(alice_bits[i], alice_bases[i])
    /\ \A i \in 1..Len(new_circuits) :
         new_circuits[i] = FreshQubit(eve_results[i], eve_bases[i])
    /\ \A i \in 1..Len(intercepted) : "measure" \notin Gates(intercepted[i])
    /\ Completed =>
         /\ Len(results) = Len(intercepted)
         /\ Len(eve_results) = (IF WithEve THEN Len(encoded) ELSE 0)

\* C15: eve_intercept and measure_qubits leave the circuits of their input
\* list as they were prepared, every measurement step measures the one circuit
\* at the next index and appends its result, and a completed run has measured
\* each prepared circuit (Alice's by Eve or, without Eve, by Bob; Eve's by
\* Bob) exactly once.
C15_QubitsImmutableMeasuredOnce == [] C15_State /\ [][C15_Step]_vars

C15_Witness ==
    /\ Completed /\ WithEve /\ n = 2
    /\ alice_bases = <<"Z", "Z">> /\ alice_bits = <<0, 1>>
    /\ eve_bases = <<"X", "X">> /\ bob_bases = <<"X", "Z">>
    /\ encoded = << <<>>, <<"x">> >>
    /\ Len(eve_results) = 2 /\ Len(results) = 2
    /\ intercepted = <<FreshQubit(eve_results[1], "X"), FreshQubit(eve_results[2], "X")>>

\* how far the driver has come, in the order of its statements
Stage ==
    CASE pc = "idle" -> 0
      [] pc = "create" -> 1
      [] pc = "bob_bases" -> IF impl = "app" THEN 2 ELSE 6
      [] pc = "encode" -> 3
      [] pc = "route" -> 4
      [] pc = "eve_loop" -> 5
      [] pc = "measure" -> 7
      [] pc = "sift" -> 8
      [] pc = "qber" -> 9
      [] pc = "classify" -> 10
      [] pc = "done" -> 11
      [] OTHER -> 12

\* trials are recorded one at a time and nothing is undone or repeated
C16_Step ==
    /\ Len(results') \in {Len(results), Len(results) + 1}
    /\ Len(eve_results') \in {Len(eve_results), Len(eve_results) + 1}
    /\ SubSeq(results', 1, Len(results)) = results
    /\ SubSeq(eve_results', 1, Len(eve_results)) = eve_results
    /\ Stage' >= Stage
    /\ Stage' = Stage => \/ Len(results') = Len(results) + 1
                         \/ Len(eve_results') = Len(eve_results) + 1

\* C16: a run started with n >= 1 reaches its end with all n trials
\* recorded; trials are recorded in single forward steps, no statement is
\* retried or undone; and no failure state is ever entered.
C16_RunCompletes ==
    /\ (n >= 1 /\ pc = "create") ~>
           (Completed /\ Len(bob_results) = n /\ Len(alice_bits) = n
            /\ (WithEve => Len(eve_results) = n))
    /\ [][C16_Step]_vars
    /\ [](pc # "raised" /\ Stage <= 11)

C16_Witness ==
    /\ Completed /\ n = 2 /\ WithEve
    /\ Len(bob_results) = 2 /\ Len(eve_results) = 2
    /\ verdict = HighQBER

\* C17: with Eve, in a trial whose sender and receiver bases agree, Bob's bit
\* equals the sender's bit whenever Eve's basis equals the sender's; whenever
\* Eve's basis differs, Bob's measurement can give 0 and can give 1, so his bit
\* can differ from the sender's.
C17_ErrorOnlyIfEveBasisDiffers ==
    WithEve =>
        /\ \A i \in 1..Len(results) :
             (alice_bases[i] = bob_bases[i] /\ eve_bases[i] = alice_bases[i]) =>
                 results[i] = alice_bits[i]
        /\ (pc = "measure" /\ Len(results) < Len(intercepted)) =>
             LET i == Len(results) + 1
             IN (alice_bases[i] = bob_bases[i] /\ eve_bases[i] # alice_bases[i]) =>
                    BobCanGet(alice_bits[i]) /\ BobCanGet(1 - alice_bits[i])
        /\ Sifted =>
             \A k \in ErrorPositions : eve_bases[Nth(Kept, k)] # alice_bases[Nth(Kept, k)]

C17_Witness ==
    /\ Completed /\ WithEve
    /\ Len(key_a) = 2
    /\ ErrorPositions = {2}
    /\ Greater(qber, Float(0, 1))
    /\ \A i \in Kept : eve_bases[i] # alice_bases[i]

\* the other of the two drivers
OtherDriver(driver) == IF driver = "app" THEN "script" ELSE "app"

\* the stream that hands the other driver the draws this stream hands one
\* driver: the third and the fourth block of n draws (Bob's and Eve's bases,
\* in the order the driver draws them) change places
SwappedDraws(k, stream) ==
    [j \in DOMAIN stream |->
        IF 2 * RangeLen(k) < j /\ j <= 3 * RangeLen(k) THEN stream[j + RangeLen(k)]
        ELSE IF 3 * RangeLen(k) < j THEN stream[j - RangeLen(k)]
        ELSE stream[j]]

\* C18: for the same n, the outcomes the script can produce are the outcomes
\* the app can produce with Eve present.  Every completed run with Eve is the
\* outcome computed from its stream and its sampled results, and it is also
\* the outcome the other driver computes from the stream with Bob's and Eve's
\* draws exchanged and the same sampled results; the results Eve's
\* measurement may give are the same under both drivers, and every result a
\* loop iteration may sample can be taken by it.  For run lengths below the
\* largest, the two sets of outcomes are also compared whole (once per n, in
\* the state before an app run with the all-zero stream).
C18_DriversEquivalentWithEve ==
    /\ (Completed /\ WithEve) =>
         /\ eve_results \in EveResultLists(impl, encoded, eve_bases)
         /\ bob_results \in BobResultLists(intercepted, bob_bases)
         /\ RunResult = RunWithEve(impl, n, rng_stream, eve_results, bob_results)
         /\ RunResult = RunWithEve(OtherDriver(impl), n, SwappedDraws(n, rng_stream),
                                   eve_results, bob_results)
         /\ SwappedDraws(n, SwappedDraws(n, rng_stream)) = rng_stream
    /\ (pc = "eve_loop" /\ Len(new_circuits) < Len(encoded)) =>
         LET i == Len(eve_results) + 1
         IN /\ Outcomes(eve_measured_circuit("app", encoded[i], eve_bases[i]))
                  = Outcomes(eve_measured_circuit("script", encoded[i], eve_bases[i]))
            /\ \A r \in Outcomes(eve_measured_circuit(impl, encoded[i], eve_bases[i])) :
                   EveCanGet(r)
    /\ (pc = "measure" /\ WithEve /\ Len(results) < Len(intercepted)) =>
         LET i == Len(results) + 1
         IN \A r \in Outcomes(measured_circuit(intercepted[i], bob_bases[i])) :
                BobCanGet(r)
    /\ (pc = "idle" /\ impl = "app" /\ eve_present /\ n < MaxN
        /\ \A j \in DOMAIN rng_stream : rng_stream[j] = 0) =>
         RunsWithEve("app", n) = RunsWithEve("script", n)

C18_Witness ==
    /\ Completed /\ impl = "script" /\ n = 2
    /\ eve_bases = <<"Z", "X">> /\ bob_bases = <<"X", "Z">>
    /\ alice_bases = <<"X", "Z">>
    /\ key_b # key_a
    /\ RunResult = RunWithEve("app", n, SwappedDraws(n, rng_stream),
                              eve_results, bob_results)
    /\ RunResult # RunWithEve("app", n, rng_stream, eve_results, bob_results)

====
